---- MODULE Spec2Model ----
(***************************************************************************)
(* A model of seqview.py: lazily evaluated map and filter views over       *)
(* random-access and bidirectional-only sequences.                         *)
(*                                                                         *)
(* Python objects are records.  A sequence object carries a "kind" (its    *)
(* class), an index object a "cls".  An operation that may raise returns   *)
(* a result record: exc = "none" and the value in val, or the name of the  *)
(* exception in exc and, in val, where a native list raised it.            *)
(***************************************************************************)
EXTENDS Integers, Sequences, FiniteSets

\* ------------------------------------------------------------------ bounds
\* Longest native list the client builds.
MaxLen == 3
\* Deepest nesting of views (a filter over a map over a list is 2).
MaxDepth == 2

\* The elements of the native lists: an even and an odd number.
Elem == {0, 1}

\* --------------------------------------------------------- results, values
Ok(v) == [exc |-> "none", val |-> v]

\* Where an exception was raised, when a native list raised it: the index
\* it was asked for and its length.
Nowhere == [seq |-> "none"]

Raise(e) == [exc |-> e, val |-> Nowhere]

\* list[index] out of range.
RaiseInList(index, length) ==
    [exc |-> "IndexError",
     val |-> [seq |-> "list", index |-> index, len |-> length]]

\* A native (integer) index.
NativeIndex(n) == [cls |-> "int", v |-> n]

\* A Python list (any collections.abc.Sequence that is not a view).
List(items) == [kind |-> "list", items |-> items]

\* The generator (i for i in range(n)): iterable, neither a Sequence nor a
\* BidirectionalSequence.
Generator(n) == [kind |-> "generator", n |-> n]

Reverse(s) == [i \in 1..Len(s) |-> s[Len(s) + 1 - i]]

RECURSIVE SeqMax(_)
SeqMax(s) == IF s = <<>> THEN 0
             ELSE LET m == SeqMax(Tail(s)) IN IF Head(s) > m THEN Head(s) ELSE m

\* The first exception among a sequence of results, in evaluation order.
RECURSIVE FirstExc(_)
FirstExc(rs) == IF rs = <<>> THEN "none"
                ELSE IF Head(rs).exc # "none" THEN Head(rs).exc
                ELSE FirstExc(Tail(rs))

\* The first raising result among a sequence of results.
RECURSIVE FirstRaise(_)
FirstRaise(rs) == IF Head(rs).exc # "none" THEN Head(rs)
                  ELSE FirstRaise(Tail(rs))

Vals(rs) == [k \in 1..Len(rs) |-> rs[k].val]

\* ------------------------------------------------- the client's callbacks
UnaryFuncs == {"double", "inc", "lookup"}

BinaryFuncs == {"add", "pack"}

Preds == {"odd", "never"}

Arity(func) == IF func \in BinaryFuncs THEN 2 ELSE 1

\* func(*args): the lambdas of the demonstration, lambda x, y: 2*x + y (which
\* tells its arguments apart), lambda x: (1,)[x] (which raises IndexError
\* but for 0 and -1) and an always-false predicate; a call with the wrong
\* number of arguments is a TypeError.
Apply(func, args) ==
    IF Len(args) # Arity(func) THEN Raise("TypeError")
    ELSE CASE func = "double" -> Ok(args[1] * 2)
           [] func = "inc"    -> Ok(args[1] + 1)
           [] func = "lookup" -> IF args[1] \in {0, -1} THEN Ok(1)
                                 ELSE Raise("IndexError")
           [] func = "add"    -> Ok(args[1] + args[2])
           [] func = "pack"   -> Ok(2 * args[1] + args[2])
           [] func = "odd"    -> Ok(args[1] % 2)
           [] func = "never"  -> Ok(0)

\* Python truth of an integer (or bool) result.
Truthy(v) == v # 0

\* ------------------------------------------------------ class predicates
MapKinds == {"MapView", "MapBidirectionalView"}

ViewKinds == MapKinds \cup {"FilterBidirectionalView"}

\* isinstance(o, collections.abc.Sequence)
IsSequence(o) == o.kind \in {"list", "MapView"}

\* isinstance(o, BidirectionalSequence): the views, and every Sequence
\* (registered as a virtual subclass).
IsBidirectionalSequence(o) == IsSequence(o) \/ o.kind \in ViewKinds

\* The nesting depth of an object, also the identity of a view's Index class.
ViewId(o) == IF o.kind \in ViewKinds THEN o.id ELSE 0

\* ------------------------------------------------------------- indexing
\* list.__getitem__ with an integer: negative indices count from the back.
ListGetItem(items, n) ==
    IF 0 <= n /\ n < Len(items) THEN Ok(items[n + 1])
    ELSE IF n < 0 /\ -n <= Len(items) THEN Ok(items[Len(items) + n + 1])
    ELSE RaiseInList(n, Len(items))

RECURSIVE GetItem(_, _)
\* MapBidirectionalView.__getitem__ at a point index: the composite index's
\* components are zipped with the sources; any other index is used for
\* every source.  The arguments are computed left to right.
MapGetItem(view, index) ==
    LET n  == IF index.cls = "MapIndex"
              THEN (IF Len(index.v) < Len(view.seqs) THEN Len(index.v)
                    ELSE Len(view.seqs))
              ELSE Len(view.seqs)
        rs == [k \in 1..n |->
                 GetItem(view.seqs[k],
                         IF index.cls = "MapIndex" THEN index.v[k] ELSE index)]
    IN  IF FirstExc(rs) # "none" THEN FirstRaise(rs)
        ELSE Apply(view.func, Vals(rs))

\* FilterBidirectionalView.__getitem__ at a point index.
FilterGetItem(view, index) ==
    IF index.cls = "FilterIndex" THEN GetItem(view.seq, index.v)
    ELSE Raise("AttributeError")

\* seq[index]
GetItem(seq, index) ==
    CASE seq.kind = "list" ->
           IF index.cls = "int" THEN ListGetItem(seq.items, index.v)
           ELSE Raise("TypeError")
      [] seq.kind \in MapKinds -> MapGetItem(seq, index)
      [] seq.kind = "FilterBidirectionalView" -> FilterGetItem(seq, index)
      [] OTHER -> Raise("TypeError")

\* -------------------------------------------------------------- stepping
RECURSIVE succ(_)
RECURSIVE pred(_)
RECURSIVE FilterIndexSucc(_)
RECURSIVE FilterIndexPred(_)

\* MapBidirectionalView.Index.__succ__: every component steps forward.
MapIndexSucc(index) ==
    LET rs == [k \in 1..Len(index.v) |-> succ(index.v[k])]
    IN  IF FirstExc(rs) # "none" THEN FirstRaise(rs)
        ELSE Ok([index EXCEPT !.v = Vals(rs)])

\* A slip: __pred__ written as a copy of __succ__.
MapIndexPred_AsSucc(index) == MapIndexSucc(index)

\* MapBidirectionalView.Index.__pred__: every component steps backward.
MapIndexPred(index) ==
    LET rs == [k \in 1..Len(index.v) |-> pred(index.v[k])]
    IN  IF FirstExc(rs) # "none" THEN FirstRaise(rs)
        ELSE Ok([index EXCEPT !.v = Vals(rs)])

\* A slip: the predicate is not asked.
FilterIndexSucc_NoSkip(index) ==
    LET s == succ(index.v)
    IN  IF s.exc # "none" THEN s
        ELSE LET g == GetItem(index.seq, s.val)
             IN  IF g.exc # "none" THEN g
                 ELSE Ok([index EXCEPT !.v = s.val])

\* FilterBidirectionalView.Index.__succ__: step the wrapped index until the
\* predicate holds of the source's element there.
FilterIndexSucc(index) ==
    LET s == succ(index.v)
    IN  IF s.exc # "none" THEN s
        ELSE LET g == GetItem(index.seq, s.val)
                 t == IF g.exc = "none" THEN Apply(index.func, <<g.val>>) ELSE g
                 ret == [index EXCEPT !.v = s.val]
             IN  IF t.exc # "none" THEN t
                 ELSE IF Truthy(t.val) THEN Ok(ret)
                 ELSE FilterIndexSucc(ret)

\* ret.seqindex when the loop of that __succ__ is left, by return or by an
\* exception.
RECURSIVE FilterIndexSuccLast(_)
FilterIndexSuccLast(index) ==
    LET s == succ(index.v)
    IN  IF s.exc # "none" THEN index.v
        ELSE LET g == GetItem(index.seq, s.val)
                 t == IF g.exc = "none" THEN Apply(index.func, <<g.val>>) ELSE g
             IN  IF t.exc # "none" \/ Truthy(t.val) THEN s.val
                 ELSE FilterIndexSuccLast([index EXCEPT !.v = s.val])

\* A slip: the predicate is not asked on the way back.
FilterIndexPred_NoSkip(index) ==
    LET s == pred(index.v)
    IN  IF s.exc # "none" THEN s
        ELSE LET g == GetItem(index.seq, s.val)
             IN  IF g.exc # "none" THEN g
                 ELSE Ok([index EXCEPT !.v = s.val])

\* FilterBidirectionalView.Index.__pred__
FilterIndexPred(index) ==
    LET s == pred(index.v)
    IN  IF s.exc # "none" THEN s
        ELSE LET g == GetItem(index.seq, s.val)
                 t == IF g.exc = "none" THEN Apply(index.func, <<g.val>>) ELSE g
                 ret == [index EXCEPT !.v = s.val]
             IN  IF t.exc # "none" THEN t
                 ELSE IF Truthy(t.val) THEN Ok(ret)
                 ELSE FilterIndexPred(ret)

\* succ(index): index.__succ__(), or index+1 for an integer.
succ(index) ==
    CASE index.cls = "MapIndex"    -> MapIndexSucc(index)
      [] index.cls = "FilterIndex" -> FilterIndexSucc(index)
      [] OTHER                     -> Ok(NativeIndex(index.v + 1))

\* A slip: pred without its test for 0.
pred_NoUnderflowCheck(index) ==
    CASE index.cls = "MapIndex"    -> MapIndexPred(index)
      [] index.cls = "FilterIndex" -> FilterIndexPred(index)
      [] OTHER                     -> Ok(NativeIndex(index.v - 1))

\* pred(index): index.__pred__(), or index-1 for an integer other than 0.
pred(index) ==
    CASE index.cls = "MapIndex"    -> MapIndexPred(index)
      [] index.cls = "FilterIndex" -> FilterIndexPred(index)
      [] OTHER -> IF index.v = 0 THEN Raise("ValueError")
                  ELSE Ok(NativeIndex(index.v - 1))

\* Index.__eq__ of both view classes: the same class (each view instance has
\* its own) and equal wrapped indices; integers compare by value.
RECURSIVE IndexEq(_, _)
IndexEq(a, b) ==
    IF a.cls # b.cls THEN FALSE
    ELSE CASE a.cls = "int" -> a.v = b.v
           [] a.cls = "MapIndex" ->
                /\ a.owner = b.owner
                /\ Len(a.v) = Len(b.v)
                /\ \A k \in 1..Len(a.v) : IndexEq(a.v[k], b.v[k])
           [] a.cls = "FilterIndex" ->
                /\ a.owner = b.owner
                /\ IndexEq(a.v, b.v)

\* a == b on indices. For an integer and an Index, int.__eq__ answers
\* NotImplemented and Python asks the Index; Index.__eq__ answers a bool.
Eq_FailFast(a, b) ==
    IF a.cls # b.cls \/ (a.cls # "int" /\ a.owner # b.owner)
    THEN Raise("TypeError")
    ELSE Ok(IndexEq(a, b))

Eq(a, b) == Ok(IndexEq(a, b))

\* begin(seq)
begin(seq) ==
    IF seq.kind \in ViewKinds THEN Ok(seq.begin)
    ELSE IF IsSequence(seq) THEN Ok(NativeIndex(0))
    ELSE Raise("AttributeError")

\* end(seq)
end(seq) ==
    IF seq.kind \in ViewKinds THEN Ok(seq.end)
    ELSE IF IsSequence(seq) THEN Ok(NativeIndex(Len(seq.items)))
    ELSE Raise("AttributeError")

\* ---------------------------------------------------------------- views
MapIndex(id, seqindices) == [cls |-> "MapIndex", owner |-> id, v |-> seqindices]

\* A skip index closes over the view's predicate and source.
FilterIndex(id, func, seq, seqindex) ==
    [cls |-> "FilterIndex", owner |-> id, v |-> seqindex,
     func |-> func, seq |-> seq]

\* MapBidirectionalView.__init__ (kind is the concrete class).
MapBidirectionalViewInit(kind, func, seqs) ==
    LET bs == [k \in 1..Len(seqs) |-> begin(seqs[k])]
        es == [k \in 1..Len(seqs) |-> end(seqs[k])]
        id == 1 + SeqMax([k \in 1..Len(seqs) |-> ViewId(seqs[k])])
    IN  IF FirstExc(bs) # "none" THEN FirstRaise(bs)
        ELSE IF FirstExc(es) # "none" THEN FirstRaise(es)
        ELSE Ok([kind |-> kind, id |-> id, func |-> func, seqs |-> seqs,
                 begin |-> MapIndex(id, Vals(bs)),
                 end |-> MapIndex(id, Vals(es))])

\* FilterBidirectionalView.__init__: begin is the source's begin when the
\* predicate holds there, else its skip successor; only StopIteration is
\* caught, which none of the calls raises.
FilterBidirectionalViewInit(func, seq) ==
    LET id == 1 + ViewId(seq)
        b  == begin(seq)
        e  == end(seq)
        b0 == FilterIndex(id, func, seq, b.val)
        g  == GetItem(seq, b.val)
        t  == IF g.exc = "none" THEN Apply(func, <<g.val>>) ELSE g
        b1 == IF t.exc # "none" THEN t
              ELSE IF Truthy(t.val) THEN Ok(b0)
              ELSE succ(b0)
    IN  IF b.exc # "none" THEN b
        ELSE IF b1.exc # "none" THEN b1
        ELSE IF e.exc # "none" THEN e
        ELSE Ok([kind |-> "FilterBidirectionalView", id |-> id, func |-> func,
                 seq |-> seq, begin |-> b1.val,
                 end |-> FilterIndex(id, func, seq, e.val)])

\* slice(start, stop) of two integers that are not negative
Slice(start, stop) == [cls |-> "slice", start |-> start, stop |-> stop]

\* list[start:stop]: both ends are clipped to the list's length.
ListGetSlice(items, index) ==
    LET clip(n) == IF n < Len(items) THEN n ELSE Len(items)
    IN  List(SubSeq(items, clip(index.start) + 1, clip(index.stop)))

\* seq[index] at a slice: a list answers a list; a view answers a new view
\* of its own class over its sources sliced alike.
RECURSIVE GetSlice(_, _)
GetSlice(seq, index) ==
    CASE seq.kind = "list" -> Ok(ListGetSlice(seq.items, index))
      [] seq.kind \in MapKinds ->
           LET rs == [k \in 1..Len(seq.seqs) |-> GetSlice(seq.seqs[k], index)]
           IN  IF FirstExc(rs) # "none" THEN FirstRaise(rs)
               ELSE MapBidirectionalViewInit(seq.kind, seq.func, Vals(rs))
      [] seq.kind = "FilterBidirectionalView" ->
           LET r == GetSlice(seq.seq, index)
           IN  IF r.exc # "none" THEN r
               ELSE FilterBidirectionalViewInit(seq.func, r.val)
      [] OTHER -> Raise("TypeError")

\* min(o) of a Python object: an Index object is not iterable.
Min(o) ==
    IF o.cls # "list" THEN Raise("TypeError")
    ELSE IF o.v = <<>> THEN Raise("ValueError")
    ELSE Ok(CHOOSE m \in {o.v[k] : k \in 1..Len(o.v)} :
               \A k \in 1..Len(o.v) : m <= o.v[k])

\* MapView.__len__: min(self.end)
MapViewLen(view) == Min(view.end)

\* len(o)
len(o) ==
    CASE o.kind = "list"    -> Ok(Len(o.items))
      [] o.kind = "MapView" -> MapViewLen(o)
      [] OTHER              -> Raise("TypeError")

\* ------------------------------------------------------------- dispatch
\* A slip: any() for the first all().
smap_AnySequence(func, iterables) ==
    IF \E k \in 1..Len(iterables) : IsSequence(iterables[k])
    THEN MapBidirectionalViewInit("MapView", func, iterables)
    ELSE IF \A k \in 1..Len(iterables) : IsBidirectionalSequence(iterables[k])
    THEN MapBidirectionalViewInit("MapBidirectionalView", func, iterables)
    ELSE Ok([kind |-> "map", func |-> func, seqs |-> iterables])

\* smap(func, *iterables)
smap(func, iterables) ==
    IF \A k \in 1..Len(iterables) : IsSequence(iterables[k])
    THEN MapBidirectionalViewInit("MapView", func, iterables)
    ELSE IF \A k \in 1..Len(iterables) : IsBidirectionalSequence(iterables[k])
    THEN MapBidirectionalViewInit("MapBidirectionalView", func, iterables)
    ELSE Ok([kind |-> "map", func |-> func, seqs |-> iterables])

\* sfilter(func, iterable)
sfilter(func, iterable) ==
    IF IsSequence(iterable) THEN FilterBidirectionalViewInit(func, iterable)
    ELSE Ok([kind |-> "filter", func |-> func, seq |-> iterable])

\* ------------------------------------------------------------ iteration
\* An iterator that has not been asked for an element yet.
NoIndex == [cls |-> "none", v |-> 0]

\* st: idle, run or done; pos: the generator's position; out: what it has
\* yielded; cause: the exception raised inside it, and at: where; exc: the
\* exception its consumer gets.
Fresh == [st |-> "idle", pos |-> NoIndex, out |-> <<>>,
          cause |-> "none", at |-> Nowhere, exc |-> "none"]

Finished(it, r, e) ==
    [it EXCEPT !.st = "done", !.cause = r.exc, !.at = r.val, !.exc = e]

\* The normal end of a generator.
Return == [exc |-> "none", val |-> Nowhere]

\* What leaves the generator of __iter__ when e is raised inside its try:
\* an IndexError is re-raised as StopIteration, which ends the iteration
\* where a generator may raise it and is a RuntimeError where the
\* interpreter implements PEP 479 (Python 3.7 and later).
IterRaise(e, generatorStop) ==
    IF e = "IndexError" THEN (IF generatorStop THEN "RuntimeError" ELSE "none")
    ELSE e

\* One next() of BidirectionalSequence.__iter__.
IterNext(view, it, generatorStop) ==
    LET p == IF it.st = "idle" THEN Ok(view.begin) ELSE succ(it.pos)
    IN  IF p.exc # "none"
        THEN Finished(it, p, IterRaise(p.exc, generatorStop))
        ELSE IF IndexEq(p.val, view.end) THEN Finished(it, Return, "none")
        ELSE LET g == GetItem(view, p.val)
             IN  IF g.exc # "none"
                 THEN Finished(it, g, IterRaise(g.exc, generatorStop))
                 ELSE [it EXCEPT !.st = "run", !.pos = p.val,
                                 !.out = Append(it.out, g.val)]

\* One next() of BidirectionalSequence.__reversed__.
ReversedNext(view, it) ==
    LET pos == IF it.st = "idle" THEN view.end ELSE it.pos
    IN  IF IndexEq(pos, view.begin) THEN Finished(it, Return, "none")
        ELSE LET p == pred(pos)
                 g == IF p.exc = "none" THEN GetItem(view, p.val) ELSE p
             IN  IF g.exc # "none" THEN Finished(it, g, g.exc)
                 ELSE [it EXCEPT !.st = "run", !.pos = p.val,
                                 !.out = Append(it.out, g.val)]

\* BidirectionalSequence.__contains__: any(member == value for member in
\* self), which stops asking at the first equal member and passes on what the
\* generator raises.
RECURSIVE ContainsFrom(_, _, _, _)
ContainsFrom(view, it, value, generatorStop) ==
    LET n == IterNext(view, it, generatorStop)
    IN  IF n.st = "done"
        THEN (IF n.exc = "none" THEN Ok(FALSE)
              ELSE [exc |-> n.exc, val |-> n.at])
        ELSE IF n.out[Len(n.out)] = value THEN Ok(TRUE)
        ELSE ContainsFrom(view, n, value, generatorStop)

Contains(view, value, generatorStop) ==
    ContainsFrom(view, Fresh, value, generatorStop)

\* The receiver of __succ__ or __pred__ after the call that returned ret: the
\* step builds a new Index and assigns to that one only.
Receiver_Aliased(self, ret) == IF ret.exc = "none" THEN ret.val ELSE self

Receiver(self, ret) == self

\* The view after a step whose receiver was the very object the view caches
\* as begin or as end (which), or some other index.
Stepped(view, which, ret) ==
    CASE which = "begin" -> [view EXCEPT !.begin = Receiver(view.begin, ret)]
      [] which = "end"   -> [view EXCEPT !.end = Receiver(view.end, ret)]
      [] OTHER           -> view

\* ---------------------------------------------------------------- state
VARIABLES
    obj,     \* the object the client holds
    call,    \* the smap, sfilter or slicing call that made it, and what the
             \* call raised
    fwd,     \* the client's iter(obj)
    bwd,     \* the client's reversed(obj)
    cur,     \* an index the client steps by hand
    res      \* the client's last len, in, ==, begin, end, succ or pred call
             \* and its result

vars == <<obj, call, fwd, bwd, cur, res>>

ListsUpTo(n) == UNION {[1..k -> Elem] : k \in 0..n}

NativeLists == {List(l) : l \in ListsUpTo(MaxLen)}

Generators == {Generator(n) : n \in 0..MaxLen}

\* Bidirectional-only operands: the filter views over native lists.
FilterOperands ==
    {sfilter(p, s).val : <<p, s>> \in
        {ps \in Preds \X NativeLists : sfilter(ps[1], ps[2]).exc = "none"}}

Operands == NativeLists \cup Generators \cup FilterOperands

NoObject == [kind |-> "none"]

NoCall == [fn |-> "none", func |-> "none", args |-> <<>>, exc |-> "none",
           at |-> Nowhere]

NoRes == [op |-> "none", arg |-> NoIndex, r |-> Ok(0)]

Init ==
    /\ obj \in NativeLists \cup Generators
    /\ call = NoCall
    /\ fwd = Fresh
    /\ bwd = Fresh
    /\ cur = NoIndex
    /\ res = NoRes

\* The client has not started to use obj.
Untouched ==
    /\ fwd.st = "idle"
    /\ bwd.st = "idle"
    /\ cur = NoIndex
    /\ res = NoRes

Wrappable ==
    /\ Untouched
    /\ obj.kind \in MapKinds => obj.func # "lookup"
    /\ call.fn # "getitem"
    /\ obj.kind \in ViewKinds \cup {"list", "generator"}
    /\ ViewId(obj) < MaxDepth

\* obj = function(func, *args)
Call(fn, func, args, r) ==
    /\ call' = [fn |-> fn, func |-> func, args |-> args, exc |-> r.exc,
                at |-> IF r.exc = "none" THEN Nowhere ELSE r.val]
    /\ obj' = IF r.exc = "none" THEN r.val ELSE NoObject
    /\ UNCHANGED <<fwd, bwd, cur, res>>

\* obj = smap(func)
SMap0(func) ==
    /\ call = NoCall
    /\ Call("smap", func, <<>>, smap(func, <<>>))

\* obj = smap(func, obj); the function that raises is mapped over native lists
SMap1(func) ==
    /\ Wrappable
    /\ func = "lookup" => obj.kind = "list"
    /\ Call("smap", func, <<obj>>, smap(func, <<obj>>))

\* obj = smap(func, obj, other) or smap(func, other, obj)
SMap2(func, other, first) ==
    /\ Wrappable
    /\ ViewId(obj) = 0
    /\ LET args == IF first THEN <<obj, other>> ELSE <<other, obj>>
       IN  Call("smap", func, args, smap(func, args))

\* obj = sfilter(func, obj)
SFilter(func) ==
    /\ Wrappable
    /\ Call("sfilter", func, <<obj>>, sfilter(func, obj))

\* The sequences a view reads.
Sources(view) ==
    IF view.kind \in MapKinds THEN view.seqs
    ELSE IF view.kind = "FilterBidirectionalView" THEN <<view.seq>>
    ELSE <<>>

\* The slices a client asks for.
Slices == {Slice(start, stop) : start \in 0..1, stop \in 1..MaxLen}

\* obj = obj[start:stop], for a view of native lists
GetSliceCall(index) ==
    /\ Untouched
    /\ obj.kind \in ViewKinds
    /\ \A k \in 1..Len(Sources(obj)) : Sources(obj)[k].kind = "list"
    /\ call.fn # "getitem"
    /\ Call("getitem", obj.func, <<obj, index>>, GetSlice(obj, index))

\* next(it) on it = iter(obj), as list(obj) calls it; generatorStop is whether
\* the interpreter implements PEP 479.
FwdNext ==
    /\ obj.kind \in ViewKinds
    /\ cur = NoIndex /\ res = NoRes
    /\ fwd.st # "done"
    /\ bwd.st \in {"idle", "done"}
    /\ \E generatorStop \in BOOLEAN : fwd' = IterNext(obj, fwd, generatorStop)
    /\ obj' = Stepped(obj, IF Len(fwd.out) = 1 THEN "begin" ELSE "none",
                       succ(fwd.pos))
    /\ UNCHANGED <<call, bwd, cur, res>>

\* next(it) on it = reversed(obj), as list(reversed(obj)) calls it; a client
\* that iterates both ways takes reversed() first
BwdNext ==
    /\ obj.kind \in ViewKinds
    /\ call.fn # "getitem"
    /\ cur = NoIndex /\ res = NoRes
    /\ bwd.st # "done"
    /\ fwd.st = "idle"
    /\ bwd' = ReversedNext(obj, bwd)
    /\ obj' = Stepped(obj, IF bwd.st = "idle" /\ ~IndexEq(obj.end, obj.begin)
                            THEN "end" ELSE "none",
                       pred(obj.end))
    /\ UNCHANGED <<call, fwd, cur, res>>

\* len(obj)
LenCall ==
    /\ Untouched
    /\ call.fn # "getitem"
    /\ obj.kind \in ViewKinds \cup {"list"}
    /\ res' = [op |-> "len", arg |-> NoIndex, r |-> len(obj)]
    /\ UNCHANGED <<obj, call, fwd, bwd, cur>>

\* The largest integer in an index.
RECURSIVE IndexMax(_)
IndexMax(index) ==
    CASE index.cls = "int" -> index.v
      [] index.cls = "MapIndex" ->
           SeqMax([k \in 1..Len(index.v) |-> IndexMax(index.v[k])])
      [] index.cls = "FilterIndex" -> IndexMax(index.v)
      [] OTHER -> 0

Steppable ==
    /\ fwd.st = "idle" /\ bwd.st = "idle"
    /\ call.fn # "getitem"
    /\ IsBidirectionalSequence(obj)
    /\ res.op # "len"

\* Which cached index of a view the cursor is: begin() and end() hand out
\* the object the view holds, and a step hands out a new one.
Cached ==
    IF obj.kind \in ViewKinds /\ res.op \in {"begin", "end"} THEN res.op
    ELSE "none"

\* value in obj, for a view of native lists
ContainsCall(value) ==
    /\ Untouched
    /\ obj.kind \in ViewKinds
    /\ \A k \in 1..Len(Sources(obj)) : Sources(obj)[k].kind = "list"
    /\ call.fn # "getitem"
    /\ \E generatorStop \in BOOLEAN :
          res' = [op |-> "contains", arg |-> NoIndex, value |-> value,
                  r |-> Contains(obj, value, generatorStop)]
    /\ LET first == IterNext(obj, Fresh, TRUE)
       IN  obj' = Stepped(obj, IF first.st = "run" /\ first.out[1] # value
                               THEN "begin" ELSE "none",
                          succ(obj.begin))
    /\ UNCHANGED <<call, fwd, bwd, cur>>

\* cur = begin(obj)
CursorBegin ==
    /\ Steppable
    /\ cur = NoIndex
    /\ cur' = begin(obj).val
    /\ res' = [op |-> "begin", arg |-> NoIndex, r |-> begin(obj)]
    /\ UNCHANGED <<obj, call, fwd, bwd>>

\* cur = end(obj)
CursorEnd ==
    /\ Steppable
    /\ cur = NoIndex
    /\ cur' = end(obj).val
    /\ res' = [op |-> "end", arg |-> NoIndex, r |-> end(obj)]
    /\ UNCHANGED <<obj, call, fwd, bwd>>

\* cur = succ(cur)
CursorSucc ==
    /\ Steppable
    /\ cur # NoIndex
    /\ IndexMax(cur) <= MaxLen
    /\ res' = [op |-> "succ", arg |-> cur, r |-> succ(cur)]
    /\ cur' = IF succ(cur).exc = "none" THEN succ(cur).val ELSE cur
    /\ obj' = Stepped(obj, Cached, succ(cur))
    /\ UNCHANGED <<call, fwd, bwd>>

\* cur = pred(cur)
CursorPred ==
    /\ Steppable
    /\ cur # NoIndex
    /\ res' = [op |-> "pred", arg |-> cur, r |-> pred(cur)]
    /\ cur' = IF pred(cur).exc = "none" THEN pred(cur).val ELSE cur
    /\ obj' = Stepped(obj, Cached, pred(cur))
    /\ UNCHANGED <<call, fwd, bwd>>

\* Indices at hand to compare the cursor with: an integer, and the begin of
\* obj and of the sequences it reads.
Comparands ==
    {NativeIndex(0), begin(obj).val}
        \cup {begin(Sources(obj)[k]).val : k \in 1..Len(Sources(obj))}

\* cur == other, for a cursor as begin() gave it
CursorEq(other) ==
    /\ Steppable
    /\ res.op = "begin"
    /\ res' = [op |-> "eq", arg |-> cur, other |-> other, r |-> Eq(cur, other)]
    /\ UNCHANGED <<obj, call, fwd, bwd, cur>>

Next ==
    \/ \E func \in UnaryFuncs : SMap0(func)
    \/ \E func \in UnaryFuncs : SMap1(func)
    \/ \E func \in BinaryFuncs, other \in Operands, first \in BOOLEAN :
          SMap2(func, other, first)
    \/ \E func \in Preds : SFilter(func)
    \/ \E index \in Slices : GetSliceCall(index)
    \/ FwdNext
    \/ BwdNext
    \/ LenCall
    \/ \E value \in Elem : ContainsCall(value)
    \/ CursorBegin
    \/ CursorEnd
    \/ CursorSucc
    \/ CursorPred
    \/ \E other \in Comparands : CursorEq(other)

Spec == Init /\ [][Next]_vars

\* =============================================================== claims
\* What the properties are stated against: the mathematical meaning of the
\* callbacks and of filtering and zipping plain sequences.
Holds(p, x) == IF p = "odd" THEN x % 2 = 1 ELSE FALSE

Matching(p, items) == SelectSeq(items, LAMBDA x : Holds(p, x))

Binary(func, x, y) == IF func = "add" THEN x + y ELSE 2 * x + y

Shorter(a, b) == IF Len(a) <= Len(b) THEN Len(a) ELSE Len(b)

Zipped(func, a, b) == [i \in 1..Shorter(a, b) |-> Binary(func, a[i], b[i])]

\* obj is (or was to be) sfilter(p, s) of a native list s.
FilterOfList == call.fn = "sfilter" /\ call.args[1].kind = "list"

\* obj is smap(f, a, b) of two native lists.
MapOfTwoLists ==
    /\ call.fn = "smap"
    /\ Len(call.args) = 2
    /\ call.args[1].kind = "list"
    /\ call.args[2].kind = "list"

\* The position at which a finished reversed() stopped.
StoppedAt(it) == IF it.out = <<>> THEN obj.end ELSE it.pos

\* C1: for every native list s and predicate p, sfilter(p, s) is built and
\* list(sfilter(p, s)) is the elements of s that satisfy p, in order, with
\* no error.
C1_FilterForward ==
    FilterOfList =>
        /\ call.exc = "none"
        /\ fwd.st = "done" =>
              /\ fwd.exc = "none"
              /\ fwd.out = Matching(call.func, call.args[1].items)

\* C2: for every native list s and predicate p, list(reversed(sfilter(p, s)))
\* is the reverse of list(sfilter(p, s)) and stops at the view's begin.
C2_FilterReversed ==
    FilterOfList =>
        /\ call.exc = "none"
        /\ bwd.st = "done" =>
              /\ bwd.exc = "none"
              /\ IndexEq(StoppedAt(bwd), obj.begin)
              /\ bwd.out = Reverse(Matching(call.func, call.args[1].items))
              /\ fwd.st = "done" => bwd.out = Reverse(fwd.out)

\* C3: for native lists a, b, list(smap(f, a, b)) is f(a[i], b[i]) for the
\* positions i of the shorter list, in order, and ends with no error.
C3_MapForwardShortest ==
    MapOfTwoLists /\ fwd.st = "done" =>
        /\ fwd.exc = "none"
        /\ fwd.out = Zipped(call.func, call.args[1].items, call.args[2].items)

\* C4: for native lists a, b of equal length, list(reversed(smap(f, a, b)))
\* is f(a[n-1], b[n-1]), ..., f(a[0], b[0]), the reverse of the forward list,
\* and ends with no error when the position equals begin.
C4_MapReversedEqualLength ==
    (/\ MapOfTwoLists
     /\ Len(call.args[1].items) = Len(call.args[2].items)
     /\ bwd.st = "done") =>
        /\ bwd.exc = "none"
        /\ IndexEq(StoppedAt(bwd), obj.begin)
        /\ bwd.out = Reverse(Zipped(call.func, call.args[1].items,
                                    call.args[2].items))
        /\ fwd.st = "done" => fwd.exc = "none" /\ bwd.out = Reverse(fwd.out)

\* C4's case: both traversals of a map of two equally long lists are over,
\* and the backward one yielded several elements that are no palindrome.
C4_Witness ==
    /\ MapOfTwoLists
    /\ Len(call.args[1].items) = Len(call.args[2].items)
    /\ call.func = "pack"
    /\ bwd.st = "done"
    /\ fwd.st = "done"
    /\ Len(bwd.out) >= 2
    /\ bwd.out # fwd.out

\* C5: len() of a map view over native lists is the least of their lengths.
C5_MapViewLength ==
    (/\ res.op = "len"
     /\ call.fn = "smap"
     /\ obj.kind = "MapView"
     /\ obj.seqs # <<>>
     /\ \A k \in 1..Len(obj.seqs) : obj.seqs[k].kind = "list") =>
        /\ res.r.exc = "none"
        /\ \A k \in 1..Len(obj.seqs) : res.r.val <= Len(obj.seqs[k].items)
        /\ \E k \in 1..Len(obj.seqs) : res.r.val = Len(obj.seqs[k].items)

Unary(func, x) == IF func = "double" THEN 2 * x ELSE x + 1

\* s is a native list, or a map view of a function that never raises over
\* native lists.
OverLists(s) ==
    \/ s.kind = "list"
    \/ /\ s.kind = "MapView"
       /\ s.seqs # <<>>
       /\ s.func # "lookup"
       /\ \A k \in 1..Len(s.seqs) : s.seqs[k].kind = "list"

\* The elements of such a sequence, front to back.
Elements(s) ==
    IF s.kind = "list" THEN s.items
    ELSE IF Len(s.seqs) = 1
    THEN [i \in 1..Len(s.seqs[1].items) |-> Unary(s.func, s.seqs[1].items[i])]
    ELSE Zipped(s.func, s.seqs[1].items, s.seqs[2].items)

\* C6: sfilter(p, s) with no element of s satisfying p is built without an
\* error, its begin equals its end, and iterating it yields nothing.
C6_EmptyFilterConstructs ==
    (/\ call.fn = "sfilter"
     /\ OverLists(call.args[1])
     /\ Matching(call.func, Elements(call.args[1])) = <<>>) =>
        /\ call.exc = "none"
        /\ IndexEq(obj.begin, obj.end)
        /\ fwd.st = "done" => fwd.exc = "none" /\ fwd.out = <<>>

\* 2: random-access, 1: bidirectional-only, 0: forward-only.
Capability(o) ==
    CASE o.kind \in {"list", "MapView"} -> 2
      [] o.kind \in {"MapBidirectionalView", "FilterBidirectionalView"} -> 1
      [] OTHER -> 0

LeastCapability(args) ==
    CHOOSE c \in {Capability(args[k]) : k \in 1..Len(args)} :
        \A k \in 1..Len(args) : c <= Capability(args[k])

\* C7: smap of one input or more never fails, and its result is the random-access map view when
\* every input is random-access, else the bidirectional-only map view when
\* every input is at least bidirectional, else the built-in lazy map.
C7_SmapDispatch ==
    (call.fn = "smap" /\ call.args # <<>>) =>
        /\ call.exc = "none"
        /\ obj.kind = CASE LeastCapability(call.args) = 2 -> "MapView"
                        [] LeastCapability(call.args) = 1 -> "MapBidirectionalView"
                        [] OTHER -> "map"

\* C7's case: one forward-only input beside a random-access one.
C7_Witness ==
    /\ call.fn = "smap"
    /\ Len(call.args) = 2
    /\ \E k \in 1..2 : call.args[k].kind = "generator"
    /\ \E k \in 1..2 : call.args[k].kind = "list"
    /\ obj.kind = "map"

\* C8: sfilter returns a filter view for every input that is at least
\* bidirectional, and the built-in lazy filter only for the others.
C8_SfilterDispatch ==
    (call.fn = "sfilter" /\ call.exc = "none") =>
        obj.kind = IF Capability(call.args[1]) >= 1
                   THEN "FilterBidirectionalView" ELSE "filter"

RECURSIVE SeqMin(_)
SeqMin(s) == IF s = <<>> THEN 0
             ELSE IF Len(s) = 1 THEN s[1]
             ELSE LET m == SeqMin(Tail(s)) IN IF Head(s) < m THEN Head(s) ELSE m

\* The smallest integer in an index.
RECURSIVE IndexMin(_)
IndexMin(index) ==
    CASE index.cls = "int" -> index.v
      [] index.cls = "MapIndex" ->
           SeqMin([k \in 1..Len(index.v) |-> IndexMin(index.v[k])])
      [] OTHER -> IndexMin(index.v)

\* The element k places before the position of the skip index i, whose
\* source is a native list or a map view over native lists.
ElementBefore(i, k) ==
    IF i.seq.kind = "list" THEN i.seq.items[i.v.v - k + 1]
    ELSE IF Len(i.seq.seqs) = 1
    THEN Unary(i.seq.func, i.seq.seqs[1].items[i.v.v[1].v - k + 1])
    ELSE Binary(i.seq.func, i.seq.seqs[1].items[i.v.v[1].v - k + 1],
                i.seq.seqs[2].items[i.v.v[2].v - k + 1])

\* No element before the position of the skip index i satisfies its predicate.
NoEarlierMatch(i) ==
    \A k \in 1..IndexMin(i) : ~Holds(i.func, ElementBefore(i, k))

\* C9: pred of the integer 0 is a ValueError and of any other integer n is
\* n-1; pred of a skip index with no earlier matching element is that
\* ValueError; no index that pred returns holds a negative integer.
C9_PredNeverUnderflows ==
    res.op = "pred" =>
        /\ res.arg.cls = "int" =>
              IF res.arg.v = 0 THEN res.r.exc = "ValueError"
              ELSE res.r.exc = "none" /\ res.r.val = NativeIndex(res.arg.v - 1)
        /\ (/\ res.arg.cls = "FilterIndex"
            /\ OverLists(res.arg.seq)
            /\ NoEarlierMatch(res.arg)) => res.r.exc = "ValueError"
        /\ res.r.exc = "none" => IndexMin(res.r.val) >= 0

\* C9's case: a skip index past the front of its source is stepped back over
\* elements that do not match, down to the front.
C9_Witness ==
    /\ res.op = "pred"
    /\ res.arg.cls = "FilterIndex"
    /\ IndexMin(res.arg) >= 1
    /\ NoEarlierMatch(res.arg)
    /\ res.r.exc = "ValueError"

\* The exception came from asking a native list for the element at its end.
AtEnd(where) == where.seq = "list" /\ where.index = where.len

\* C10: a forward iteration that meets the out-of-range error of the end
\* position ends with no error for its consumer.
C10_EndErrorEndsNormally ==
    (fwd.st = "done" /\ fwd.cause = "IndexError" /\ AtEnd(fwd.at))
        => fwd.exc = "none"

\* C11: an error raised inside a forward iteration anywhere but at the end
\* position reaches the consumer as it was raised; the iteration never ends
\* normally with the elements yielded so far.
C11_ErrorBeforeEndPropagates ==
    (fwd.st = "done" /\ fwd.cause # "none" /\ ~AtEnd(fwd.at))
        => fwd.exc = fwd.cause

\* Two indices of different concrete kinds: of different classes, or made by
\* different views.
DifferentKinds(a, b) == a.cls # b.cls \/ (a.cls # "int" /\ a.owner # b.owner)

\* C12 as stated: comparing two indices of different concrete kinds fails
\* with an error.
C12_MixedComparisonFails ==
    (res.op = "eq" /\ DifferentKinds(res.arg, res.other))
        => res.r.exc # "none"

\* C12 amended: comparing two indices of different concrete kinds raises
\* nothing and answers not-equal.
C12_MixedComparisonIsFalse ==
    (res.op = "eq" /\ DifferentKinds(res.arg, res.other))
        => res.r = Ok(FALSE)

\* C12's case: an index of a map view compared with an index of the map
\* view it reads.
C12_Witness ==
    /\ res.op = "eq"
    /\ res.arg.cls = "MapIndex"
    /\ res.other.cls = "MapIndex"
    /\ res.arg.owner # res.other.owner
    /\ res.r.exc = "none"

\* C13: smap of a function and no input sequence fails.
C13_ZeroInputsFail ==
    (call.fn = "smap" /\ call.args = <<>>) => call.exc # "none"

\* items[start:stop] of a plain sequence.
Sliced(items, index) ==
    SubSeq(items, Shorter(items, [k \in 1..index.start |-> k]) + 1,
                  Shorter(items, [k \in 1..index.stop |-> k]))

\* The list that mapping or filtering the sliced plain lists gives, for a view
\* of native lists and a function that never raises.
SlicedThenViewed(view, index) ==
    CASE view.kind = "FilterBidirectionalView" ->
           Matching(view.func, Sliced(view.seq.items, index))
      [] Len(view.seqs) = 1 ->
           LET a == Sliced(view.seqs[1].items, index)
           IN  [i \in 1..Len(a) |-> Unary(view.func, a[i])]
      [] OTHER ->
           Zipped(view.func, Sliced(view.seqs[1].items, index),
                             Sliced(view.seqs[2].items, index))

\* C14: for a view v of native lists and every range r, v[r] is built and
\* list(v[r]) holds the elements that mapping or filtering the lists sliced
\* by r gives.
C14_SliceCommutes ==
    (/\ call.fn = "getitem"
     /\ call.args[1].func # "lookup"
     /\ Sources(call.args[1]) # <<>>) =>
        /\ call.exc = "none"
        /\ fwd.st = "done" =>
              fwd.out = SlicedThenViewed(call.args[1], call.args[2])

\* C14 for the ranges that hold a matching element: the filter view then
\* exists.
C14_SliceCommutesWithMatch ==
    (/\ call.fn = "getitem"
     /\ call.exc = "none"
     /\ call.args[1].func # "lookup"
     /\ Sources(call.args[1]) # <<>>
     /\ fwd.st = "done") =>
        fwd.out = SlicedThenViewed(call.args[1], call.args[2])

BeforeEnd(i) == i.cls = "FilterIndex" /\ ~IndexEq(i.v, end(i.seq).val)

\* C16: a forward skip step from a position after which no element of the
\* source (a native list, or a map view over native lists) matches leaves
\* its loop with the wrapped index at the source's end.
C16_SkipStopsAtEnd ==
    (/\ res.op = "succ"
     /\ BeforeEnd(res.arg)
     /\ OverLists(res.arg.seq)
     /\ res.r.exc # "none") =>
        IndexEq(FilterIndexSuccLast(res.arg), end(res.arg.seq).val)

\* C17: no construction, iteration either way or step of a view's index asks
\* a native list for the element at its end index.
C17_EndNeverDereferenced ==
    /\ ~AtEnd(call.at)
    /\ ~AtEnd(fwd.at)
    /\ ~AtEnd(bwd.at)
    /\ (res.op \in {"succ", "pred"} /\ res.r.exc # "none")
          => ~AtEnd(res.r.val)

\* C17 for stepping and iterating backward.
C17_BackwardNeverDereferencesEnd ==
    /\ ~AtEnd(bwd.at)
    /\ (res.op = "pred" /\ res.r.exc # "none") => ~AtEnd(res.r.val)

\* obj is smap(f, sfilter(p, s)) of a native list s and a function that never
\* raises; the filter view exists, so an element of s satisfies p.
MapOfFilterOfList ==
    /\ call.fn = "smap"
    /\ call.func # "lookup"
    /\ Len(call.args) = 1
    /\ call.args[1].kind = "FilterBidirectionalView"
    /\ call.args[1].seq.kind = "list"

\* Position b of items holds a matching element and no position strictly
\* between a and b does (positions count from 0).
NextMatchFrom(p, items, a, b) ==
    /\ b \in 0..(Len(items) - 1)
    /\ Holds(p, items[b + 1])
    /\ \A j \in 0..(Len(items) - 1) :
          ((a < j /\ j < b) \/ (b < j /\ j < a)) => ~Holds(p, items[j + 1])

\* C18: smap(f, sfilter(p, s)) is the bidirectional-only map view; iterating
\* it forward yields f(x) for the elements x of s that satisfy p, in order;
\* iterating it backward yields the reverse of that and ends normally; a
\* step of its index moves the wrapped skip index to the next (previous)
\* matching element.
C18_MapOverFilter ==
    MapOfFilterOfList =>
        LET p     == call.args[1].func
            items == call.args[1].seq.items
            m     == Matching(p, items)
            ref   == [i \in 1..Len(m) |-> Unary(call.func, m[i])]
        IN  /\ call.exc = "none"
            /\ obj.kind = "MapBidirectionalView"
            /\ m # <<>>
            /\ fwd.st = "done" => fwd.out = ref
            /\ bwd.st = "done" => (bwd.exc = "none" /\ bwd.out = Reverse(ref))
            /\ (res.op = "succ" /\ res.r.exc = "none") =>
                  /\ res.arg.v[1].v.v < res.r.val.v[1].v.v
                  /\ NextMatchFrom(p, items, res.arg.v[1].v.v,
                                   res.r.val.v[1].v.v)
            /\ (res.op = "pred" /\ res.r.exc = "none") =>
                  /\ res.r.val.v[1].v.v < res.arg.v[1].v.v
                  /\ NextMatchFrom(p, items, res.arg.v[1].v.v,
                                   res.r.val.v[1].v.v)

\* C18's case: both iterations are done over a source with a matching
\* element on either side of one that does not match.
C18_Witness ==
    /\ MapOfFilterOfList
    /\ call.args[1].seq.items = <<1, 0, 1>>
    /\ fwd.st = "done"
    /\ bwd.st = "done"
    /\ Len(fwd.out) = 2

\* obj is smap(f, a, b) of two native lists of unequal lengths.
MapOfUnequalLists ==
    /\ MapOfTwoLists
    /\ Len(call.args[1].items) # Len(call.args[2].items)

\* C19: reversed() of a map view of two native lists a, b of unequal lengths
\* yields f(a[len(a)-k], b[len(b)-k]) as its k-th element, each component
\* counted from its own end, and after as many elements as the shorter list
\* holds it raises ValueError; it never ends normally.
C19_RaggedReversed ==
    MapOfUnequalLists =>
        LET a == call.args[1].items
            b == call.args[2].items
        IN  /\ Len(bwd.out) <= Shorter(a, b)
            /\ \A k \in 1..Len(bwd.out) :
                  bwd.out[k] = Binary(call.func, a[Len(a) - k + 1],
                                                 b[Len(b) - k + 1])
            /\ bwd.st = "run" =>
                  /\ bwd.pos.v[1].v = Len(a) - Len(bwd.out)
                  /\ bwd.pos.v[2].v = Len(b) - Len(bwd.out)
            /\ bwd.st = "done" =>
                  /\ Len(bwd.out) = Shorter(a, b)
                  /\ bwd.exc = "ValueError"

\* C19's case: both iterations are done over lists of two and three elements
\* and the backward one did not yield the reverse of the forward one.
C19_Witness ==
    /\ MapOfUnequalLists
    /\ fwd.st = "done"
    /\ bwd.st = "done"
    /\ Len(bwd.out) = 2
    /\ bwd.out # Reverse(fwd.out)
    /\ bwd.exc = "ValueError"

\* C20: pred(succ(i)) == i for every index i from which succ returns: a
\* native integer, a composite index (component by component) and a skip
\* index, which sits on a matching element.
C20_PredOfSuccIsIdentity ==
    [][(res.op = "succ" /\ res.r.exc = "none" /\ res'.op = "pred") =>
          /\ res'.arg = res.r.val
          /\ res'.r.exc = "none"
          /\ IndexEq(res'.r.val, res.arg)
          /\ Eq(res'.r.val, res.arg) = Ok(TRUE)]_vars

\* C20's case: a skip index was stepped forward over an element that does
\* not match, and the step back from there has returned.
C20_Witness ==
    /\ res.op = "pred"
    /\ res.r.exc = "none"
    /\ res.arg.cls = "FilterIndex"
    /\ res.arg.v.cls = "int"
    /\ succ(res.r.val) = Ok(res.arg)
    /\ res.arg.v.v >= res.r.val.v.v + 2

====
